---- MODULE Spec2Model ----
(***************************************************************************)
(* Model of src/src/App.tsx: the task-list store (useReducer + reducer),   *)
(* the fetch-on-mount effect, the view's render branches and projections,  *)
(* and the add / toggle / remove gestures.                                 *)
(*                                                                         *)
(* Texts that the code trims (the draft, task names) are sequences of      *)
(* characters; error messages are strings.  `error: string | null` is an   *)
(* option: <<>> is null, <<m>> is the message m.                           *)
(***************************************************************************)
EXTENDS Integers, Sequences, FiniteSets, TLC

VARIABLES
  state,        \* the useReducer store: [tasks, loading, error]
  newTaskName,  \* the useState draft text
  now,          \* the value Date.now() returns at this moment
  fetch,        \* the axios.get promise: "pending", "fulfilled", "rejected"
  last,         \* the most recent event handled (history)
  repeated      \* whether `last` repeats the event handled just before it (history)

vars == <<state, newTaskName, now, fetch, last, repeated>>

----------------------------------------------------------------------------
(* Bounds *)

MaxTasks  == 3   \* the add gesture is modelled while Len(tasks) < MaxTasks
MaxTicks  == 1   \* the clock advances at most MaxTicks milliseconds
MaxListLen == 2  \* longest task list drawn as an input of the reducer
MountTime == 3   \* Date.now() when the component mounts

----------------------------------------------------------------------------
(* Data *)

Whitespace == {" "}

\* values the text input can hold (onChange)
Drafts == { <<>>, <<" ">>, <<" ", "a">>, <<"a", " ">> }

null == <<>>

\* the messages a failed axios.get can carry; "" is a string like any other
ErrorMessages ==
  { "", "Network Error", "Request failed with status code 500" }

\* bodies the remote service can answer GET /tasks with
ServerResponses ==
  { <<>>,
    << [id |-> 1, name |-> <<"a">>, done |-> FALSE] >>,
    << [id |-> 1, name |-> <<"a">>, done |-> FALSE],
       [id |-> 2, name |-> <<"a">>, done |-> TRUE] >> }

initialState == [tasks |-> <<>>, loading |-> TRUE, error |-> null]

----------------------------------------------------------------------------
(* String.prototype.trim on a text *)

RECURSIVE trimStart(_)
trimStart(s) ==
  IF s = <<>> THEN s
  ELSE IF Head(s) \in Whitespace THEN trimStart(Tail(s)) ELSE s

RECURSIVE trimEnd(_)
trimEnd(s) ==
  IF s = <<>> THEN s
  ELSE IF s[Len(s)] \in Whitespace THEN trimEnd(SubSeq(s, 1, Len(s) - 1)) ELSE s

\* the draft compared without trimming
trim_None(s) == s

trim(s) == trimEnd(trimStart(s))

----------------------------------------------------------------------------
(* Array.prototype.map / filter as the reducer and the view use them *)

\* marks the task done instead of flipping it
toggleOne_SetsDone(task, id) ==
  IF task.id = id THEN [task EXCEPT !.done = TRUE] ELSE task

toggleOne(task, id) ==
  IF task.id = id THEN [task EXCEPT !.done = ~task.done] ELSE task

RECURSIVE mapToggle(_, _)
mapToggle(tasks, id) ==
  IF tasks = <<>> THEN <<>>
  ELSE <<toggleOne(Head(tasks), id)>> \o mapToggle(Tail(tasks), id)

\* the comparison inverted: keeps the tasks with the id
RECURSIVE filterNotId_KeepsId(_, _)
filterNotId_KeepsId(tasks, id) ==
  IF tasks = <<>> THEN <<>>
  ELSE IF Head(tasks).id = id
       THEN <<Head(tasks)>> \o filterNotId_KeepsId(Tail(tasks), id)
       ELSE filterNotId_KeepsId(Tail(tasks), id)

RECURSIVE filterNotId(_, _)
filterNotId(tasks, id) ==
  IF tasks = <<>> THEN <<>>
  ELSE IF Head(tasks).id # id
       THEN <<Head(tasks)>> \o filterNotId(Tail(tasks), id)
       ELSE filterNotId(Tail(tasks), id)

----------------------------------------------------------------------------
(* The reducer, one operator per case *)

\* a successful fetch also clears the error
FETCH_SUCCESS_ClearsError(s, payload) ==
  [s EXCEPT !.tasks = payload, !.loading = FALSE, !.error = null]

FETCH_SUCCESS(s, payload) == [s EXCEPT !.tasks = payload, !.loading = FALSE]

\* forgets loading: false
FETCH_ERROR_KeepsLoading(s, payload) == [s EXCEPT !.error = <<payload>>]

FETCH_ERROR(s, payload) == [s EXCEPT !.loading = FALSE, !.error = <<payload>>]

\* flips the first task of the list, whatever its id
TOGGLE_TASK_FlipsFirst(s, payload) ==
  [s EXCEPT !.tasks =
     IF s.tasks = <<>> THEN <<>>
     ELSE <<[Head(s.tasks) EXCEPT !.done = ~Head(s.tasks).done]>> \o Tail(s.tasks)]

TOGGLE_TASK(s, payload) == [s EXCEPT !.tasks = mapToggle(s.tasks, payload)]

\* the reducer rejects a task whose name is blank
ADD_TASK_Validates(s, payload) ==
  IF trim(payload.name) = <<>> THEN s
  ELSE [s EXCEPT !.tasks = s.tasks \o <<payload>>]

ADD_TASK(s, payload) == [s EXCEPT !.tasks = s.tasks \o <<payload>>]

\* removing a task also resets the error
REMOVE_TASK_ClearsError(s, payload) ==
  [s EXCEPT !.tasks = filterNotId(s.tasks, payload), !.error = null]

REMOVE_TASK(s, payload) == [s EXCEPT !.tasks = filterNotId(s.tasks, payload)]

\* the default case returns initialState
reducer_DefaultResets(s, action) ==
  CASE action.type = "FETCH_SUCCESS" -> FETCH_SUCCESS(s, action.payload)
    [] action.type = "FETCH_ERROR"   -> FETCH_ERROR(s, action.payload)
    [] action.type = "TOGGLE_TASK"   -> TOGGLE_TASK(s, action.payload)
    [] action.type = "ADD_TASK"      -> ADD_TASK(s, action.payload)
    [] action.type = "REMOVE_TASK"   -> REMOVE_TASK(s, action.payload)
    [] OTHER                         -> initialState

reducer(s, action) ==
  CASE action.type = "FETCH_SUCCESS" -> FETCH_SUCCESS(s, action.payload)
    [] action.type = "FETCH_ERROR"   -> FETCH_ERROR(s, action.payload)
    [] action.type = "TOGGLE_TASK"   -> TOGGLE_TASK(s, action.payload)
    [] action.type = "ADD_TASK"      -> ADD_TASK(s, action.payload)
    [] action.type = "REMOVE_TASK"   -> REMOVE_TASK(s, action.payload)
    [] OTHER                         -> s

----------------------------------------------------------------------------
(* The view *)

\* `if (error)`: null and the empty string are both falsy
truthy(error) == error # null /\ error[1] # ""

\* the error branch tested before the loading branch
Render_ErrorFirst(s) ==
  IF truthy(s.error) THEN {"errorPanel"}
  ELSE IF s.loading THEN {"loadingIndicator"}
  ELSE {"addInput", "tasksToDoList", "doneTasksList"}

\* the error branch left out
Render_NoErrorBranch(s) ==
  IF s.loading THEN {"loadingIndicator"}
  ELSE {"addInput", "tasksToDoList", "doneTasksList"}

\* the elements App() returns for a store state
Render(s) ==
  IF s.loading THEN {"loadingIndicator"}
  ELSE IF truthy(s.error) THEN {"errorPanel"}
  ELSE {"addInput", "tasksToDoList", "doneTasksList"}

RECURSIVE filterDone(_, _)
filterDone(tasks, want) ==
  IF tasks = <<>> THEN <<>>
  ELSE IF Head(tasks).done = want
       THEN <<Head(tasks)>> \o filterDone(Tail(tasks), want)
       ELSE filterDone(Tail(tasks), want)

\* the negation of task.done dropped
tasksToDo_Unnegated(s) == filterDone(s.tasks, TRUE)

tasksToDo(s) == filterDone(s.tasks, FALSE)

doneTasks(s) == filterDone(s.tasks, TRUE)

----------------------------------------------------------------------------
(* History records *)

Event(op, id, text) == [op |-> op, id |-> id, text |-> text]

Mount == Event("mount", 0, <<>>)

----------------------------------------------------------------------------
(* The running app *)

Init ==
  /\ state = initialState
  /\ newTaskName = <<>>
  /\ now = MountTime
  /\ fetch = "pending"
  /\ last = Mount
  /\ repeated = FALSE

\* the effect without its [] dependency list: the fetch is issued and
\* resolved again after the first resolution
FetchThen_EveryRender ==
  /\ \E data \in ServerResponses :
       state' = reducer(state, [type |-> "FETCH_SUCCESS", payload |-> data])
  /\ fetch' = "fulfilled"
  /\ last' = Event("FETCH_SUCCESS", 0, <<>>)
  /\ repeated' = (last' = last)
  /\ UNCHANGED <<newTaskName, now>>

\* .then((response) => dispatch FETCH_SUCCESS)
FetchThen ==
  /\ fetch = "pending"
  /\ \E data \in ServerResponses :
       state' = reducer(state, [type |-> "FETCH_SUCCESS", payload |-> data])
  /\ fetch' = "fulfilled"
  /\ last' = Event("FETCH_SUCCESS", 0, <<>>)
  /\ repeated' = (last' = last)
  /\ UNCHANGED <<newTaskName, now>>

\* the promise chain without its .catch: a rejection dispatches nothing
FetchCatch_NoDispatch ==
  /\ fetch = "pending"
  /\ fetch' = "rejected"
  /\ UNCHANGED <<state, newTaskName, now, last, repeated>>

\* .catch((error) => dispatch FETCH_ERROR)
FetchCatch ==
  /\ fetch = "pending"
  /\ \E message \in ErrorMessages :
       state' = reducer(state, [type |-> "FETCH_ERROR", payload |-> message])
  /\ fetch' = "rejected"
  /\ last' = Event("FETCH_ERROR", 0, <<>>)
  /\ repeated' = (last' = last)
  /\ UNCHANGED <<newTaskName, now>>

\* onChange of the text input
OnChange ==
  /\ "addInput" \in Render(state)
  /\ \E text \in Drafts :
       /\ newTaskName' = text
       /\ last' = Event("onChange", 0, text)
  /\ repeated' = (last' = last)
  /\ UNCHANGED <<state, now, fetch>>

\* the trimmed draft stored as the name
newTask_Trimmed == [id |-> now, name |-> trim(newTaskName), done |-> FALSE]

newTask == [id |-> now, name |-> newTaskName, done |-> FALSE]

\* onClick of the add button
handleAddTask ==
  /\ "addInput" \in Render(state)
  /\ Len(state.tasks) < MaxTasks
  /\ IF trim(newTaskName) = <<>>
     THEN UNCHANGED <<state, newTaskName>>
     ELSE /\ state' = reducer(state, [type |-> "ADD_TASK", payload |-> newTask])
          /\ newTaskName' = <<>>
  /\ last' = Event("handleAddTask", now, newTaskName)
  /\ repeated' = (last' = last)
  /\ UNCHANGED <<now, fetch>>

\* the check button rendered on the done items as well
ToggleClick_AnyTask ==
  /\ "tasksToDoList" \in Render(state)
  /\ \E k \in 1..Len(state.tasks) :
       LET id == state.tasks[k].id IN
       /\ state' = reducer(state, [type |-> "TOGGLE_TASK", payload |-> id])
       /\ last' = Event("TOGGLE_TASK", id, <<>>)
  /\ repeated' = (last' = last)
  /\ UNCHANGED <<newTaskName, now, fetch>>

\* onClick of the check button of a to-do item
ToggleClick ==
  /\ "tasksToDoList" \in Render(state)
  /\ \E k \in 1..Len(tasksToDo(state)) :
       LET id == tasksToDo(state)[k].id IN
       /\ state' = reducer(state, [type |-> "TOGGLE_TASK", payload |-> id])
       /\ last' = Event("TOGGLE_TASK", id, <<>>)
  /\ repeated' = (last' = last)
  /\ UNCHANGED <<newTaskName, now, fetch>>

handleRemoveTask(id) ==
  /\ state' = reducer(state, [type |-> "REMOVE_TASK", payload |-> id])
  /\ last' = Event("REMOVE_TASK", id, <<>>)
  /\ repeated' = (last' = last)
  /\ UNCHANGED <<newTaskName, now, fetch>>

\* onClick of the trash button of a to-do item
RemoveClickToDo ==
  /\ "tasksToDoList" \in Render(state)
  /\ \E k \in 1..Len(tasksToDo(state)) : handleRemoveTask(tasksToDo(state)[k].id)

\* onClick of the trash button of a done item
RemoveClickDone ==
  /\ "doneTasksList" \in Render(state)
  /\ \E k \in 1..Len(doneTasks(state)) : handleRemoveTask(doneTasks(state)[k].id)

\* a millisecond passes
Tick ==
  /\ now < MountTime + MaxTicks
  /\ now' = now + 1
  /\ UNCHANGED <<state, newTaskName, fetch, last, repeated>>

Next ==
  \/ FetchThen
  \/ FetchCatch
  \/ OnChange
  \/ handleAddTask
  \/ ToggleClick
  \/ RemoveClickToDo
  \/ RemoveClickDone
  \/ Tick

Spec == Init /\ [][Next]_vars

\* the promise of axios.get settles: one of its two handlers runs
SpecFair == Spec /\ WF_vars(FetchThen \/ FetchCatch)

----------------------------------------------------------------------------
(* The reducer and the render function on their own: the store state is    *)
(* drawn from every combination of a bounded task list, a loading flag and *)
(* an error, and any action is dispatched to it, the tags of the Action    *)
(* union and tags outside it alike.                                        *)

TaskIds == {1, 2}

\* ids carried by TOGGLE_TASK / REMOVE_TASK; 3 is the id of no task
PayloadIds == {1, 2, 3}

Names == { <<>>, <<"a">> }

Tasks == [id : TaskIds, name : Names, done : BOOLEAN]

RECURSIVE ListsUpTo(_)
ListsUpTo(n) ==
  IF n = 0 THEN { <<>> }
  ELSE LET shorter == ListsUpTo(n - 1)
       IN shorter \cup { Append(l, t) : l \in shorter, t \in Tasks }

TaskLists == ListsUpTo(MaxListLen)

StoreStates ==
  [tasks : TaskLists,
   loading : BOOLEAN,
   error : {null} \cup { <<m>> : m \in ErrorMessages }]

\* tags that are not members of the Action union
UnknownTypes == { "RESET", "fetch_success", "" }

InitReducer ==
  /\ state \in StoreStates
  /\ newTaskName = <<>>
  /\ now = MountTime
  /\ fetch = "pending"
  /\ last = Mount
  /\ repeated = FALSE

DispatchFetchSuccess ==
  /\ \E data \in ServerResponses :
       state' = reducer(state, [type |-> "FETCH_SUCCESS", payload |-> data])
  /\ last' = Event("FETCH_SUCCESS", 0, <<>>)
  /\ repeated' = (last' = last)
  /\ UNCHANGED <<newTaskName, now, fetch>>

DispatchFetchError ==
  /\ \E message \in ErrorMessages :
       state' = reducer(state, [type |-> "FETCH_ERROR", payload |-> message])
  /\ last' = Event("FETCH_ERROR", 0, <<>>)
  /\ repeated' = (last' = last)
  /\ UNCHANGED <<newTaskName, now, fetch>>

DispatchToggle ==
  /\ \E id \in PayloadIds :
       /\ state' = reducer(state, [type |-> "TOGGLE_TASK", payload |-> id])
       /\ last' = Event("TOGGLE_TASK", id, <<>>)
  /\ repeated' = (last' = last)
  /\ UNCHANGED <<newTaskName, now, fetch>>

DispatchAdd ==
  /\ Len(state.tasks) < MaxListLen
  /\ \E task \in Tasks :
       /\ state' = reducer(state, [type |-> "ADD_TASK", payload |-> task])
       /\ last' = Event("ADD_TASK", task.id, task.name)
  /\ repeated' = (last' = last)
  /\ UNCHANGED <<newTaskName, now, fetch>>

DispatchRemove ==
  /\ \E id \in PayloadIds :
       /\ state' = reducer(state, [type |-> "REMOVE_TASK", payload |-> id])
       /\ last' = Event("REMOVE_TASK", id, <<>>)
  /\ repeated' = (last' = last)
  /\ UNCHANGED <<newTaskName, now, fetch>>

DispatchUnknown ==
  /\ \E type \in UnknownTypes :
       /\ state' = reducer(state, [type |-> type, payload |-> 0])
       /\ last' = Event(type, 0, <<>>)
  /\ repeated' = (last' = last)
  /\ UNCHANGED <<newTaskName, now, fetch>>

NextReducer ==
  \/ DispatchFetchSuccess
  \/ DispatchFetchError
  \/ DispatchToggle
  \/ DispatchAdd
  \/ DispatchRemove
  \/ DispatchUnknown

SpecReducer == InitReducer /\ [][NextReducer]_vars

----------------------------------------------------------------------------
(* Properties *)

\* C1: in every reachable state of the running app no two tasks in `tasks`
\* have the same id.
C1_UniqueIds ==
  \A j, k \in 1..Len(state.tasks) :
    j # k => state.tasks[j].id # state.tasks[k].id

\* C2: in every state where the add gesture is offered, ADD_TASK with the
\* task the gesture would build (id = Date.now(), any draft as name) followed
\* by REMOVE_TASK with that id yields the `tasks` list of the state itself.
C2_AddThenRemove ==
  "addInput" \in Render(state) =>
    \A text \in Drafts :
      LET t == [id |-> now, name |-> text, done |-> FALSE]
          added == reducer(state, [type |-> "ADD_TASK", payload |-> t])
          removed == reducer(added, [type |-> "REMOVE_TASK", payload |-> t.id])
      IN removed.tasks = state.tasks

\* C3: once FETCH_ERROR has been dispatched, with whatever message, the view
\* renders the error panel and nothing else, in that state and ever after.
C3_ErrorPanelOnly == fetch = "rejected" => Render(state) = {"errorPanel"}

\* C4: `loading` is true exactly while the fetch is pending (the initial
\* state included), and no step takes `loading` from false back to true.
C4_LoadingOnce ==
  /\ [](state.loading <=> fetch = "pending")
  /\ [][~state.loading => ~state'.loading]_vars

\* a gesture handled after the fetch resolved, with `loading` still false
C4_Witness ==
  /\ fetch = "fulfilled"
  /\ last.op = "TOGGLE_TASK"
  /\ state.tasks # <<>>
  /\ ~state.loading

\* C5: for every state and every id i, TOGGLE_TASK with i applied twice in a
\* row gives back the state: tasks (each `done` included), loading and error.
C5_ToggleTwice ==
  \A i \in PayloadIds :
    LET toggle == [type |-> "TOGGLE_TASK", payload |-> i]
    IN reducer(reducer(state, toggle), toggle) = state

\* TOGGLE_TASK dispatched twice in a row with the id of one of two tasks
C5_Witness ==
  /\ last.op = "TOGGLE_TASK"
  /\ repeated
  /\ \E j, k \in 1..Len(state.tasks) :
       /\ state.tasks[j].id = last.id
       /\ state.tasks[k].id # last.id
       /\ ~state.tasks[j].done

\* C6: for every state and every action whose type is none of the five tags
\* of the Action union, the reducer returns the state unchanged.
C6_UnknownIdentity ==
  \A type \in UnknownTypes :
    reducer(state, [type |-> type, payload |-> 0]) = state

\* an action with an unknown tag dispatched to a state other than the initial one
C6_Witness ==
  /\ last.op \in UnknownTypes
  /\ state.tasks # <<>>
  /\ ~state.loading
  /\ state.error # null

\* C7: tasksToDo is exactly the subsequence of `tasks` with done = false and
\* doneTasks the subsequence with done = true: the k-th task of `tasks` is
\* found in the projection of its `done` value, at the position given by the
\* number of tasks with that value up to k, and the projections hold nothing
\* else.
C7_Partition ==
  LET t == state.tasks
      upTo(k, want) == Cardinality({ j \in 1..k : t[j].done = want })
      todo == tasksToDo(state)
      dn == doneTasks(state)
  IN /\ Len(todo) = upTo(Len(t), FALSE)
     /\ Len(dn) = upTo(Len(t), TRUE)
     /\ \A k \in 1..Len(t) :
          IF t[k].done THEN dn[upTo(k, TRUE)] = t[k]
                       ELSE todo[upTo(k, FALSE)] = t[k]

\* the lists are rendered for three tasks: to do, done, to do
C7_Witness ==
  /\ "tasksToDoList" \in Render(state)
  /\ Len(state.tasks) = 3
  /\ ~state.tasks[1].done
  /\ state.tasks[2].done
  /\ ~state.tasks[3].done

\* C8: the view renders exactly one of the three modes (the loading
\* indicator; the error panel; the add input with both lists), and the
\* loading indicator alone whenever `loading` is true, whatever `error` and
\* `tasks` hold.
C8_ExactlyOneMode ==
  LET R == Render(state) IN
  /\ R \in { {"loadingIndicator"}, {"errorPanel"},
             {"addInput", "tasksToDoList", "doneTasksList"} }
  /\ state.loading => R = {"loadingIndicator"}

\* a rendered state with `loading` true, an error message and tasks
C8_Witness ==
  /\ state.loading
  /\ state.error = <<"Network Error">>
  /\ state.tasks # <<>>
  /\ last.op = "ADD_TASK"

\* C9: an add gesture on a draft made of whitespace only (or empty)
\* dispatches nothing: the store state after it is the store state before it.
C9_BlankDraftSuppressed ==
  [][(/\ last'.op = "handleAddTask"
      /\ \A k \in 1..Len(last'.text) : last'.text[k] \in Whitespace)
     => state' = state]_vars

\* the add gesture was fired on the draft " " with tasks in the list
C9_Witness ==
  /\ last.op = "handleAddTask"
  /\ last.text = <<" ">>
  /\ state.tasks # <<>>

\* C10: an add gesture on a draft with a non-whitespace character appends
\* exactly one task at the end of `tasks`: its name the draft as typed, done
\* false, its id the value of Date.now() at the gesture; loading and error
\* stay, and the draft becomes the empty text.
C10_AddAppends ==
  [][(/\ last'.op = "handleAddTask"
      /\ last' # last
      /\ \E k \in 1..Len(newTaskName) : newTaskName[k] \notin Whitespace)
     => /\ state'.tasks =
             Append(state.tasks,
                    [id |-> now, name |-> newTaskName, done |-> FALSE])
        /\ state'.loading = state.loading
        /\ state'.error = state.error
        /\ newTaskName' = <<>>]_vars

\* the add gesture was fired on the draft " a" and its task is the last
\* of two or more
C10_Witness ==
  /\ last.op = "handleAddTask"
  /\ last.text = <<" ", "a">>
  /\ Len(state.tasks) >= 2
  /\ state.tasks[Len(state.tasks)].name = <<" ", "a">>
  /\ newTaskName = <<>>

\* C11: FETCH_SUCCESS puts its payload in `tasks` as it is, sets `loading`
\* to false and keeps `error`; FETCH_ERROR puts its payload in `error`, sets
\* `loading` to false and keeps `tasks`; from the initial state FETCH_SUCCESS
\* with payload P gives {tasks: P, loading: false, error: null}.
C11_FetchEffects ==
  /\ \A data \in ServerResponses :
       LET r == reducer(state, [type |-> "FETCH_SUCCESS", payload |-> data])
       IN /\ r.tasks = data
          /\ r.loading = FALSE
          /\ r.error = state.error
          /\ reducer(initialState, [type |-> "FETCH_SUCCESS", payload |-> data])
               = [tasks |-> data, loading |-> FALSE, error |-> null]
  /\ \A message \in ErrorMessages :
       LET r == reducer(state, [type |-> "FETCH_ERROR", payload |-> message])
       IN /\ r.error = <<message>>
          /\ r.loading = FALSE
          /\ r.tasks = state.tasks

\* FETCH_SUCCESS was dispatched to a state holding an error message
C11_Witness ==
  /\ last.op = "FETCH_SUCCESS"
  /\ state.error = <<"Network Error">>
  /\ Len(state.tasks) = 2
  /\ ~state.loading

\* C12: REMOVE_TASK with id i leaves no task with id i in `tasks`; the tasks
\* with another id all stay, each at the rank it had among them; loading and
\* error stay; when no task has id i the state is unchanged.
C12_RemoveEffect ==
  \A i \in PayloadIds :
    LET t == state.tasks
        r == reducer(state, [type |-> "REMOVE_TASK", payload |-> i])
        kept(k) == Cardinality({ j \in 1..k : t[j].id # i })
    IN /\ Len(r.tasks) = kept(Len(t))
       /\ \A k \in 1..Len(t) : t[k].id # i => r.tasks[kept(k)] = t[k]
       /\ r.loading = state.loading
       /\ r.error = state.error
       /\ (\A k \in 1..Len(t) : t[k].id # i) => r = state

\* REMOVE_TASK with id 1 was dispatched and a task with id 2 is what stays
C12_Witness ==
  /\ last.op = "REMOVE_TASK"
  /\ last.id = 1
  /\ Len(state.tasks) = 1
  /\ state.tasks[1].id = 2

\* C13: TOGGLE_TASK with id i keeps the length and order of `tasks` and the
\* id and name of every task, negates `done` on the tasks with id i and on
\* no other; when no task has id i the state is unchanged.
C13_ToggleEffect ==
  \A i \in PayloadIds :
    LET t == state.tasks
        r == reducer(state, [type |-> "TOGGLE_TASK", payload |-> i])
    IN /\ Len(r.tasks) = Len(t)
       /\ \A k \in 1..Len(t) :
            /\ r.tasks[k].id = t[k].id
            /\ r.tasks[k].name = t[k].name
            /\ r.tasks[k].done = (IF t[k].id = i THEN ~t[k].done ELSE t[k].done)
       /\ r.loading = state.loading
       /\ r.error = state.error
       /\ (\A k \in 1..Len(t) : t[k].id # i) => r = state

\* TOGGLE_TASK with id 2 was dispatched to a list whose second task has id 2
C13_Witness ==
  /\ last.op = "TOGGLE_TASK"
  /\ last.id = 2
  /\ Len(state.tasks) = 2
  /\ state.tasks[1].id = 1
  /\ state.tasks[2].id = 2
  /\ state.tasks[2].done

\* C14: ADD_TASK appends its payload as the last element of `tasks`, for
\* every payload, the ones with the empty name included, and the elements
\* before it keep their values and order.
C14_AddNoValidation ==
  \A task \in Tasks :
    LET t == state.tasks
        r == reducer(state, [type |-> "ADD_TASK", payload |-> task])
    IN /\ Len(r.tasks) = Len(t) + 1
       /\ r.tasks[Len(t) + 1] = task
       /\ \A k \in 1..Len(t) : r.tasks[k] = t[k]

\* ADD_TASK was dispatched with a task whose name is empty, after another task
C14_Witness ==
  /\ last.op = "ADD_TASK"
  /\ last.text = <<>>
  /\ Len(state.tasks) = 2
  /\ state.tasks[2].name = <<>>
  /\ state.tasks[2].id = last.id

\* C19: ADD_TASK, TOGGLE_TASK and REMOVE_TASK leave `loading` and `error` as
\* they are, for every state and payload.
C19_GestureFrame ==
  LET same(r) == r.loading = state.loading /\ r.error = state.error
  IN /\ \A task \in Tasks :
          same(reducer(state, [type |-> "ADD_TASK", payload |-> task]))
     /\ \A i \in PayloadIds :
          /\ same(reducer(state, [type |-> "TOGGLE_TASK", payload |-> i]))
          /\ same(reducer(state, [type |-> "REMOVE_TASK", payload |-> i]))

\* REMOVE_TASK was dispatched to a state with `loading` true and an error
C19_Witness ==
  /\ last.op = "REMOVE_TASK"
  /\ (\E k \in 1..Len(state.tasks) : state.tasks[k].id # last.id)
  /\ state.loading
  /\ state.error = <<"">>

\* C15: the fetch resolves at most once, by FETCH_SUCCESS or by FETCH_ERROR,
\* and that is the step that ends the loading phase; until then the store
\* is the initial state and no gesture has been handled, and afterwards no
\* FETCH_SUCCESS or FETCH_ERROR is dispatched again.
C15_LeavesLoadingOnce ==
  /\ [](state.loading => state = initialState /\ last = Mount)
  /\ [][fetch' # fetch =>
          /\ fetch = "pending"
          /\ state.loading
          /\ ~state'.loading
          /\ last'.op \in {"FETCH_SUCCESS", "FETCH_ERROR"}]_vars
  /\ [][(fetch # "pending" /\ last' # last) =>
          last'.op \in {"onChange", "handleAddTask", "TOGGLE_TASK",
                        "REMOVE_TASK"}]_vars

\* gestures were handled after the one resolution of the fetch
C15_Witness ==
  /\ fetch = "fulfilled"
  /\ last.op = "REMOVE_TASK"
  /\ state.tasks # <<>>
  /\ ~state.loading

\* C16: when the promise of the GET /tasks call settles, fulfilled or
\* rejected with whatever message, FETCH_SUCCESS or FETCH_ERROR is
\* dispatched, so every run in which it settles reaches `loading` = false.
C16_EventuallyLoaded == <>(~state.loading)

\* the call failed with a non-2xx response and `loading` is false
C16_Witness ==
  /\ fetch = "rejected"
  /\ last.op = "FETCH_ERROR"
  /\ state.error = <<"Request failed with status code 500">>
  /\ ~state.loading

\* C17: in every reachable state whose `error` is a non-empty text `tasks`
\* is empty and only the error panel is rendered, and every step from such
\* a state leaves the store, the draft and the event history as they are:
\* no add, toggle or remove gesture is handled any more.
C17_ErrorTerminal ==
  /\ [](truthy(state.error) =>
          /\ state.tasks = <<>>
          /\ Render(state) = {"errorPanel"})
  /\ [][truthy(state.error) =>
          /\ state' = state
          /\ newTaskName' = newTaskName
          /\ last' = last]_vars

\* the fetch failed with "Network Error" and time has passed since the mount
C17_Witness ==
  /\ state.error = <<"Network Error">>
  /\ last.op = "FETCH_ERROR"
  /\ now > MountTime

\* C18: every TOGGLE_TASK the view dispatches carries the id of a task that
\* is not done at that moment; and from a state whose ids are distinct, a
\* task that is done is still in `tasks`, done, after any step, unless the
\* step is REMOVE_TASK with its id.
C18_DoneStaysDone ==
  [][/\ (last'.op = "TOGGLE_TASK" /\ state' # state) =>
          \E k \in 1..Len(state.tasks) :
            state.tasks[k].id = last'.id /\ ~state.tasks[k].done
     /\ (\A j, k \in 1..Len(state.tasks) :
            j # k => state.tasks[j].id # state.tasks[k].id) =>
          \A k \in 1..Len(state.tasks) :
            state.tasks[k].done =>
              \/ \E j \in 1..Len(state'.tasks) : state'.tasks[j] = state.tasks[k]
              \/ /\ last'.op = "REMOVE_TASK"
                 /\ last'.id = state.tasks[k].id]_vars

\* a to-do task was toggled next to a task that was done already: three
\* tasks with distinct ids, the first two done
C18_Witness ==
  /\ last.op = "TOGGLE_TASK"
  /\ Len(state.tasks) = 3
  /\ state.tasks[1].id = 1
  /\ state.tasks[2].id = 2
  /\ state.tasks[3].id = MountTime
  /\ last.id = 1
  /\ state.tasks[1].done
  /\ state.tasks[2].done

====
